---- MODULE Spec2Model ----
(***************************************************************************)
(* A model of speech_to_text.py: the SpeechToText class, which uploads an   *)
(* audio file to the ElevenLabs speech-to-text endpoint, asks Gemini for    *)
(* four pieces of meeting minutes and stores them in a JSON file.           *)
(*                                                                          *)
(* Text is a sequence of chunks.  A chunk is either one character that the  *)
(* JSON encoder treats specially (a quote, a backslash, a newline, or a     *)
(* non-ASCII character written as its code point, "U+00FA") or a run of     *)
(* plain printable ASCII characters.  A Python value is a record with a     *)
(* tag: None, or a str holding its chunks.                                  *)
(***************************************************************************)
EXTENDS Integers, Sequences, FiniteSets, TLC

VARIABLES
    env,              \* the process environment read by os.getenv
    audio,            \* the audio file on disk: its path and its size in bytes
    pc,               \* the statement the caller / transcribe() is about to run
    exc,              \* the exception that left the program, if any
    instance,         \* TRUE once SpeechToText() has returned an object
    self,             \* the object's attributes
    configured,       \* TRUE once genai.configure / GenerativeModel ran
    audio_file_path,  \* local of transcribe()
    transcription,    \* local of transcribe()
    locals,           \* locals of meeting_minutes(): the four texts so far
    summary,          \* the dict meeting_minutes() returned
    httpCalls,        \* the requests.post calls made, with their outcome
    genCalls,         \* the generate_content calls made, with their outcome
    stdout,           \* the lines printed
    trace,            \* the methods transcribe() has called, in order
    fs,               \* the files written: a set of [path, content]
    tmpdirs,          \* the directories tempfile.mkdtemp() has created
    clock,            \* datetime.datetime.now(), in seconds
    stored            \* the completed store_in_json_file calls: [data, path]

vars == <<env, audio, pc, exc, instance, self, configured, audio_file_path,
          transcription, locals, summary, httpCalls, genCalls, stdout, trace,
          fs, tmpdirs, clock, stored>>

(***************************************************************************)
(* Bounds of the model.                                                     *)
(***************************************************************************)
MaxClock == 1
MaxStores == 2
MaxTmp == 2

(***************************************************************************)
(* Python values.                                                           *)
(***************************************************************************)
None == [tag |-> "None", s |-> <<>>]
PyStr(s) == [tag |-> "str", s |-> s]
Unset == [tag |-> "unset", s |-> <<>>]

\* the truth value of v, as in `if not v`: None and "" are false
TruthyNotNone(v) == v.tag # "None"
Truthy(v) == v.tag = "str" /\ v.s # <<>>

\* f"{v}": str(None) is the text None
Format(v) == IF v.tag = "str" THEN v.s ELSE <<"None">>

\* a dict is the sequence of its <<key, value>> items, in insertion order; the
\* members of a decoded JSON object are the set of them
DictGetNoDefault(items, key, default) ==
    IF \E m \in items : m[1] = key
    THEN (CHOOSE m \in items : m[1] = key)[2]
    ELSE None
\* d.get(key, default) on the members of a JSON object
DictGet(items, key, default) ==
    IF \E m \in items : m[1] = key
    THEN (CHOOSE m \in items : m[1] = key)[2]
    ELSE default
\* d[key]
DictIndex(d, key) == d[CHOOSE i \in DOMAIN d : d[i][1] = key][2]

Digit == ("0" :> 0) @@ ("1" :> 1) @@ ("2" :> 2) @@ ("3" :> 3) @@ ("4" :> 4)
         @@ ("5" :> 5) @@ ("6" :> 6) @@ ("7" :> 7) @@ ("8" :> 8) @@ ("9" :> 9)
RECURSIVE IntOfDigits(_, _)
IntOfDigits(s, acc) ==
    IF s = <<>> THEN acc ELSE IntOfDigits(Tail(s), 10 * acc + Digit[Head(s)])
\* int(os.getenv('MAX_AUDIO_SIZE_BYTES', 20 * 1024 * 1024))
DefaultMaxAudioSize == 20 * 1024 * 1024
MaxAudioSizeOf(v) ==
    IF v.tag = "None" THEN DefaultMaxAudioSize ELSE IntOfDigits(v.s, 0)

(***************************************************************************)
(* The inputs: the environment, the audio file, the providers' answers.     *)
(***************************************************************************)
KeyValues == {None, PyStr(<<>>), PyStr(<<"sk-key">>)}
MaxSizeValues == {None, PyStr(<<"1", "0", "0", "0">>)}
Environments ==
    [ELEVENLABS_API_KEY : KeyValues, GEMINI_API_KEY : KeyValues,
     GEMINI_MODEL : {None}, ELEVENLABS_SCRIBE_MODEL_ID : {None},
     MAX_AUDIO_SIZE_BYTES : MaxSizeValues]
\* os.getenv(name, default)
GetEnv(v, default) == IF v = None THEN default ELSE v
AudioFiles == [path : {<<"meeting.mp3">>, <<"rec", "/", "call.wav">>},
               size : {500, 1000, 2000}]
\* os.path.basename(path)
Basename(path) == <<path[Len(path)]>>

NoException == [type |-> "none", at |-> "none"]
Raised(type, at) == [type |-> type, at |-> at]
NoSelf == [elevenlabs_api_key |-> None, gemini_api_key |-> None,
           gemini_model_name |-> None, elevenlabs_scribe_model_id |-> None,
           MAX_AUDIO_SIZE_BYTES |-> 0]

Init ==
    /\ env \in Environments
    /\ audio \in AudioFiles
    /\ pc = "SpeechToText"
    /\ exc = NoException
    /\ instance = FALSE
    /\ self = NoSelf
    /\ configured = FALSE
    /\ audio_file_path = None
    /\ transcription = Unset
    /\ locals = <<>>
    /\ summary = <<>>
    /\ httpCalls = <<>>
    /\ genCalls = <<>>
    /\ stdout = <<>>
    /\ trace = <<>>
    /\ fs = {}
    /\ tmpdirs = {}
    /\ clock = 0
    /\ stored = <<>>

(***************************************************************************)
(* SpeechToText.__init__                                                    *)
(***************************************************************************)
SpeechToText_init ==
    /\ pc = "SpeechToText"
    /\ IF ~Truthy(env.ELEVENLABS_API_KEY)
       THEN /\ exc' = Raised("ValueError", "__init__")
            /\ pc' = "raised"
            /\ UNCHANGED <<instance, self, configured>>
       ELSE IF ~Truthy(env.GEMINI_API_KEY)
       THEN /\ exc' = Raised("ValueError", "__init__")
            /\ pc' = "raised"
            /\ UNCHANGED <<instance, self, configured>>
       ELSE /\ configured' = TRUE
            /\ self' = [elevenlabs_api_key |-> env.ELEVENLABS_API_KEY,
                        gemini_api_key |-> env.GEMINI_API_KEY,
                        gemini_model_name |->
                            GetEnv(env.GEMINI_MODEL, PyStr(<<"gemini-1.5-flash">>)),
                        elevenlabs_scribe_model_id |->
                            GetEnv(env.ELEVENLABS_SCRIBE_MODEL_ID, PyStr(<<"scribe_v1">>)),
                        MAX_AUDIO_SIZE_BYTES |->
                            MaxAudioSizeOf(env.MAX_AUDIO_SIZE_BYTES)]
            /\ instance' = TRUE
            /\ pc' = "resize_audio_if_needed"
            /\ exc' = exc
    /\ UNCHANGED <<env, audio, audio_file_path, transcription, locals, summary,
                   httpCalls, genCalls, stdout, trace, fs, tmpdirs, clock,
                   stored>>

(***************************************************************************)
(* resize_audio_if_needed                                                   *)
(***************************************************************************)
get_file_size(file) == file.size
ExceedsLimitOrEqual(audio_size, limit) == audio_size >= limit
ExceedsLimit(audio_size, limit) == audio_size > limit
SizeWarning == <<"Aviso: O audio excede MAX_AUDIO_SIZE_BYTES">>

resize_audio_if_needed ==
    /\ pc = "resize_audio_if_needed"
    /\ stdout' = IF ExceedsLimit(get_file_size(audio), self.MAX_AUDIO_SIZE_BYTES)
                 THEN Append(stdout, SizeWarning)
                 ELSE stdout
    /\ audio_file_path' = PyStr(audio.path)
    /\ trace' = Append(trace, "resize_audio_if_needed")
    /\ pc' = "transcribe_audio"
    /\ UNCHANGED <<env, audio, exc, instance, self, configured, transcription,
                   locals, summary, httpCalls, genCalls, fs, tmpdirs, clock,
                   stored>>

(***************************************************************************)
(* transcribe_audio                                                         *)
(***************************************************************************)
\* What requests.post can do: raise, or return a response with a status and
\* a body.  A body is undecodable (response.json() raises: requests' own
\* JSONDecodeError, a RequestException, or before requests 2.27 the json
\* module's), a JSON object, or a JSON array.
ObjectBody(members) == [json |-> "object", raises |-> "none", members |-> members]
TextBody == ObjectBody({<<"language_code", PyStr(<<"en">>)>>,
                        <<"text", PyStr(<<"hello world">>)>>})
ErrorPage == [json |-> "undecodable", raises |-> "requests.JSONDecodeError", members |-> {}]
Bodies ==
    { ErrorPage,
      [json |-> "undecodable", raises |-> "json.JSONDecodeError", members |-> {}],
      TextBody,
      ObjectBody({<<"language_code", PyStr(<<"en">>)>>}),
      [json |-> "array", raises |-> "none", members |-> {}] }
NoBody == [json |-> "none", raises |-> "none", members |-> {}]
HttpOutcomes ==
    { [error |-> e, status |-> 0, body |-> NoBody] : e \in {"ConnectionError", "Timeout"} }
    \cup { [error |-> "none", status |-> 200, body |-> b] : b \in Bodies }
    \cup { [error |-> "none", status |-> 304, body |-> b] : b \in {TextBody, ErrorPage} }
    \cup { [error |-> "none", status |-> st, body |-> ErrorPage] : st \in {401, 500} }

\* response.raise_for_status(): an HTTPError for 4xx and 5xx
RaisesForStatus(status) == 400 <= status /\ status < 600

\* except requests.exceptions.RequestException
IsConnectionError(type) == type = "ConnectionError"
IsRequestException(type) ==
    type \in {"ConnectionError", "Timeout", "HTTPError", "requests.JSONDecodeError"}
\* except json.JSONDecodeError: requests' own class inherits from it too, but
\* the first handler that matches wins
IsNeverCaught(type) == FALSE
IsJSONDecodeError(type) ==
    type \in {"json.JSONDecodeError", "requests.JSONDecodeError"}

TranscribeError == <<"Erro na transcricao com ElevenLabs: ">>
TranscribeDetails == <<"Detalhes do erro: ">>
TranscribeDecodeError == <<"Erro ao decodificar JSON da resposta da ElevenLabs: ">>
TranscribeDone == <<"Transcribe (ElevenLabs): Done">>

\* the try block of transcribe_audio: the exception it raises, if any, and
\* whether that exception carries a response
TryTranscribe(o) ==
    IF o.error # "none" THEN [type |-> o.error, response |-> FALSE]
    ELSE IF RaisesForStatus(o.status) THEN [type |-> "HTTPError", response |-> TRUE]
    ELSE IF o.body.json = "undecodable" THEN [type |-> o.body.raises, response |-> FALSE]
    ELSE IF o.body.json # "object" THEN [type |-> "AttributeError", response |-> FALSE]
    ELSE [type |-> "none", response |-> FALSE]

\* transcribe_audio from the response on: what it raises, returns and prints
transcribe_audio_result(o) ==
    LET e == TryTranscribe(o) IN
    IF e.type = "none"
    THEN [raised |-> NoException,
          value |-> DictGet(o.body.members, "text", PyStr(<<>>)),
          out |-> <<TranscribeDone>>]
    ELSE IF IsRequestException(e.type)
    THEN [raised |-> NoException, value |-> None,
          out |-> IF e.response THEN <<TranscribeError \o <<e.type>>, TranscribeDetails>>
                  ELSE <<TranscribeError \o <<e.type>> >>]
    ELSE IF IsJSONDecodeError(e.type)
    THEN [raised |-> NoException, value |-> None, out |-> <<TranscribeDecodeError>>]
    ELSE [raised |-> Raised(e.type, "transcribe_audio"), value |-> Unset,
          out |-> IF e.type = "AttributeError" THEN <<TranscribeDone>> ELSE <<>>]

\* transcribe(): meeting_minutes(transcription) follows, whatever was returned
ExitOnNone(value) ==
    IF value = None THEN "done" ELSE "abstract_summary_extraction"
AfterTranscribeAudio(value) == "abstract_summary_extraction"

transcribe_audio ==
    /\ pc = "transcribe_audio"
    /\ \E o \in HttpOutcomes :
         LET r == transcribe_audio_result(o) IN
         /\ httpCalls' = Append(httpCalls,
                [url |-> "https://api.elevenlabs.io/v1/speech-to-text",
                 xi_api_key |-> self.elevenlabs_api_key,
                 model_id |-> self.elevenlabs_scribe_model_id,
                 file |-> <<Basename(audio_file_path.s), <<"audio/mpeg">> >>,
                 outcome |-> o])
         /\ stdout' = stdout \o r.out
         /\ transcription' = r.value
         /\ exc' = r.raised
         /\ pc' = IF r.raised = NoException THEN AfterTranscribeAudio(r.value)
                  ELSE "raised"
    /\ trace' = Append(trace, "transcribe_audio")
    /\ UNCHANGED <<env, audio, instance, self, configured, audio_file_path,
                   locals, summary, genCalls, fs, tmpdirs, clock, stored>>

(***************************************************************************)
(* _generate_gemini_content and the four extractions                        *)
(***************************************************************************)
\* What generate_content / response.text can do: give a text, or raise an
\* exception whose message is s.
GenOutcomes ==
    { [kind |-> "text", s |-> <<"He said ", "\"", "hi", "\"", " ", "\\", "n", " caf", "U+00E9", "\n">>],
      [kind |-> "raise", s |-> <<"timeout">>],
      [kind |-> "raise", s |-> <<"429 ", "\"", "quota", "\"">>] }

abstract_summary_prompt == "Voce e uma IA altamente qualificada, treinada em compreensao de linguagem e sumarizacao. [...]"
key_points_prompt == "Voce e uma IA proficiente com especialidade em destilar informacoes em pontos-chave. [...]"
action_item_prompt == "Voce e um especialista em IA em analisar conversas e extrair itens de acao. [...]"
sentiment_prompt == "Como uma IA com experiencia em analise de linguagem e emocao, sua tarefa e analisar o sentimento do texto a seguir. [...]"

\* f"{system_prompt}\n\nTexto para analisar:\n{user_transcription}"
Prompt(system_prompt, user_transcription) ==
    <<system_prompt, "\n\nTexto para analisar:\n">> \o Format(user_transcription)

GenErrorLog == <<"Erro ao gerar conte", "U+00FA", "do com Gemini: ">>
GenErrorPrefix == <<"Erro ao gerar conte", "U+00FA", "do: ">>

\* _generate_gemini_content from the provider's answer on: what it raises,
\* returns and prints
generate_gemini_content_returns_none(o) ==
    IF o.kind = "text"
    THEN [raised |-> NoException, value |-> PyStr(o.s), out |-> <<>>]
    ELSE [raised |-> NoException, value |-> None, out |-> <<GenErrorLog \o o.s>>]
generate_gemini_content_drops_message(o) ==
    IF o.kind = "text"
    THEN [raised |-> NoException, value |-> PyStr(o.s), out |-> <<>>]
    ELSE [raised |-> NoException, value |-> PyStr(GenErrorPrefix),
          out |-> <<GenErrorLog \o o.s>>]
generate_gemini_content(o) ==
    IF o.kind = "text"
    THEN [raised |-> NoException, value |-> PyStr(o.s), out |-> <<>>]
    ELSE [raised |-> NoException, value |-> PyStr(GenErrorPrefix \o o.s),
          out |-> <<GenErrorLog \o o.s>>]

\* one of the four extraction methods: a fixed prompt, one provider call, one
\* local of meeting_minutes() assigned
Extraction(method, system_prompt, local, done, next) ==
    /\ pc = method
    /\ \E o \in GenOutcomes :
         LET r == generate_gemini_content(o) IN
         /\ genCalls' = Append(genCalls,
                [prompt |-> Prompt(system_prompt, transcription), outcome |-> o])
         /\ IF r.raised = NoException
            THEN /\ stdout' = stdout \o r.out \o <<done>>
                 /\ locals' = Append(locals, <<local, r.value>>)
                 /\ pc' = next
                 /\ exc' = exc
            ELSE /\ stdout' = stdout \o r.out
                 /\ locals' = locals
                 /\ pc' = "raised"
                 /\ exc' = r.raised
    /\ trace' = Append(trace, method)
    /\ UNCHANGED <<env, audio, instance, self, configured, audio_file_path,
                   transcription, summary, httpCalls, fs, tmpdirs, clock, stored>>

abstract_summary_extraction ==
    Extraction("abstract_summary_extraction", abstract_summary_prompt,
               "abstract_summary", <<"Summary (Gemini): Done">>,
               "key_points_extraction")
key_points_extraction ==
    Extraction("key_points_extraction", key_points_prompt,
               "key_points", <<"Key Points (Gemini): Done">>,
               "action_item_extraction")
action_item_extraction ==
    Extraction("action_item_extraction", action_item_prompt,
               "action_items", <<"Action Items (Gemini): Done">>,
               "sentiment_analysis")
sentiment_analysis ==
    Extraction("sentiment_analysis", sentiment_prompt,
               "sentiment", <<"Sentiment (Gemini): Done">>,
               "meeting_minutes")

(***************************************************************************)
(* meeting_minutes: the dict it returns                                     *)
(***************************************************************************)
MinutesDictCrossed(l) ==
    << <<"abstract_summary", DictIndex(l, "abstract_summary")>>,
       <<"key_points", DictIndex(l, "key_points")>>,
       <<"action_items", DictIndex(l, "action_items")>>,
       <<"sentiment", DictIndex(l, "action_items")>> >>
MinutesDict(l) ==
    << <<"abstract_summary", DictIndex(l, "abstract_summary")>>,
       <<"key_points", DictIndex(l, "key_points")>>,
       <<"action_items", DictIndex(l, "action_items")>>,
       <<"sentiment", DictIndex(l, "sentiment")>> >>

meeting_minutes ==
    /\ pc = "meeting_minutes"
    /\ summary' = MinutesDict(locals)
    /\ pc' = "store_in_json_file"
    /\ UNCHANGED <<env, audio, exc, instance, self, configured, audio_file_path,
                   transcription, locals, httpCalls, genCalls, stdout, trace,
                   fs, tmpdirs, clock, stored>>

(***************************************************************************)
(* json.dump, and json.load to read the file back                           *)
(***************************************************************************)
\* ensure_ascii: a non-ASCII character is written as \uXXXX
UnicodeEscape == ("U+00FA" :> "u00fa") @@ ("U+00E9" :> "u00e9")

EscapeChar(c) ==
    CASE c = "\"" -> <<"\\", "\"">>
      [] c = "\\" -> <<"\\", "\\">>
      [] c = "\n" -> <<"\\", "n">>
      [] c \in DOMAIN UnicodeEscape -> <<"\\", UnicodeEscape[c]>>
      [] OTHER -> <<c>>

RECURSIVE Escape(_)
Escape(s) == IF s = <<>> THEN <<>> ELSE EscapeChar(Head(s)) \o Escape(Tail(s))

JsonValue(v) ==
    IF v.tag = "str" THEN <<"\"">> \o Escape(v.s) \o <<"\"">> ELSE <<"null">>

RECURSIVE JsonMembers(_)
JsonMembers(d) ==
    IF d = <<>> THEN <<>>
    ELSE JsonValue(PyStr(<<Head(d)[1]>>)) \o <<": ">> \o JsonValue(Head(d)[2])
         \o (IF Tail(d) = <<>> THEN <<>> ELSE <<", ">> \o JsonMembers(Tail(d)))

\* json.dumps(d) with the default separators
JsonDumps(d) == <<"{">> \o JsonMembers(d) \o <<"}">>

Unescape == ("\"" :> "\"") @@ ("\\" :> "\\") @@ ("n" :> "\n")
            @@ ("u00fa" :> "U+00FA") @@ ("u00e9" :> "U+00E9")

\* the string whose opening quote precedes doc[i]
RECURSIVE ScanString(_, _, _)
ScanString(doc, i, acc) ==
    IF i > Len(doc) \/ doc[i] = "\n"
    THEN [ok |-> FALSE, val |-> None, next |-> i]
    ELSE IF doc[i] = "\"" THEN [ok |-> TRUE, val |-> PyStr(acc), next |-> i + 1]
    ELSE IF doc[i] = "\\"
    THEN IF i + 1 > Len(doc) \/ doc[i + 1] \notin DOMAIN Unescape
         THEN [ok |-> FALSE, val |-> None, next |-> i]
         ELSE ScanString(doc, i + 2, Append(acc, Unescape[doc[i + 1]]))
    ELSE ScanString(doc, i + 1, Append(acc, doc[i]))

ScanValue(doc, i) ==
    IF i > Len(doc) THEN [ok |-> FALSE, val |-> None, next |-> i]
    ELSE IF doc[i] = "null" THEN [ok |-> TRUE, val |-> None, next |-> i + 1]
    ELSE IF doc[i] = "\"" THEN ScanString(doc, i + 1, <<>>)
    ELSE [ok |-> FALSE, val |-> None, next |-> i]

Invalid == [ok |-> FALSE, dict |-> <<>>]

\* the members of an object, from doc[i] on, up to the closing brace that
\* must end the document
RECURSIVE ScanMembers(_, _, _)
ScanMembers(doc, i, acc) ==
    LET k == ScanValue(doc, i) IN
    IF ~k.ok \/ k.val.tag # "str" \/ Len(k.val.s) # 1 THEN Invalid
    ELSE IF k.next > Len(doc) \/ doc[k.next] # ": " THEN Invalid
    ELSE LET v == ScanValue(doc, k.next + 1)
             items == Append(acc, <<k.val.s[1], v.val>>) IN
         IF ~v.ok \/ v.next > Len(doc) THEN Invalid
         ELSE IF doc[v.next] = "}"
              THEN IF v.next = Len(doc) THEN [ok |-> TRUE, dict |-> items]
                   ELSE Invalid
         ELSE IF doc[v.next] = ", " THEN ScanMembers(doc, v.next + 1, items)
         ELSE Invalid

\* json.loads(doc): the dict, or not ok where it raises
JsonLoads(doc) ==
    IF Len(doc) < 2 \/ doc[1] # "{" THEN Invalid
    ELSE IF doc[2] = "}"
         THEN IF Len(doc) = 2 THEN [ok |-> TRUE, dict |-> <<>>] ELSE Invalid
    ELSE ScanMembers(doc, 2, <<>>)

(***************************************************************************)
(* store_in_json_file                                                       *)
(***************************************************************************)
\* the names tempfile.mkdtemp() can pick; it never returns an existing one
TmpNames == 1 .. MaxTmp
SharedTempDir(d) == <<"/tmp">>
TempDir(d) == <<"/tmp/tmp", ToString(d)>>
\* datetime.datetime.now().strftime("%Y%m%d%H%M%S"): one name per second
Timestamp(t) == <<"[%Y%m%d%H%M%S of second ", ToString(t), "]">>
JsonFilePath(temp_dir, t) ==
    temp_dir \o <<"/">> \o <<"meeting_data_">> \o Timestamp(t) \o <<".json">>

\* open(path, 'w') and write: an existing file is replaced
WriteFile(files, path, content) ==
    {f \in files : f.path # path} \cup {[path |-> path, content |-> content]}

StoreInJsonFile(data) ==
    \E d \in TmpNames \ tmpdirs :
        LET file_path == JsonFilePath(TempDir(d), clock) IN
        /\ tmpdirs' = tmpdirs \cup {d}
        /\ fs' = WriteFile(fs, file_path, JsonDumps(data))
        /\ stdout' = stdout \o << <<"JSON file path: ">> \o file_path,
                                  <<"JSON file created successfully.">> >>
        /\ stored' = Append(stored, [data |-> data, path |-> file_path])

store_in_json_file ==
    /\ pc = "store_in_json_file"
    /\ StoreInJsonFile(summary)
    /\ trace' = Append(trace, "store_in_json_file")
    /\ pc' = "print"
    /\ UNCHANGED <<env, audio, exc, instance, self, configured, audio_file_path,
                   transcription, locals, summary, httpCalls, genCalls, clock>>

(***************************************************************************)
(* transcribe: the four print calls that end it                             *)
(***************************************************************************)
print_summary ==
    /\ pc = "print"
    /\ stdout' = stdout \o
         << <<"Abstract Summary: ">> \o Format(DictIndex(summary, "abstract_summary")),
            <<"Key Points: ">> \o Format(DictIndex(summary, "key_points")),
            <<"Action Items: ">> \o Format(DictIndex(summary, "action_items")),
            <<"Sentiment: ">> \o Format(DictIndex(summary, "sentiment")) >>
    /\ trace' = Append(trace, "print")
    /\ pc' = "done"
    /\ UNCHANGED <<env, audio, exc, instance, self, configured, audio_file_path,
                   transcription, locals, summary, httpCalls, genCalls, fs,
                   tmpdirs, clock, stored>>

\* time passing between two statements
Tick ==
    /\ clock < MaxClock
    /\ clock' = clock + 1
    /\ UNCHANGED <<env, audio, pc, exc, instance, self, configured,
                   audio_file_path, transcription, locals, summary, httpCalls,
                   genCalls, stdout, trace, fs, tmpdirs, stored>>

(***************************************************************************)
(* The program: SpeechToText() and then transcribe(path), with a file       *)
(* system that works.                                                       *)
(***************************************************************************)
ProgramStep ==
    \/ SpeechToText_init
    \/ resize_audio_if_needed
    \/ transcribe_audio
    \/ abstract_summary_extraction
    \/ key_points_extraction
    \/ action_item_extraction
    \/ sentiment_analysis
    \/ meeting_minutes
    \/ store_in_json_file
    \/ print_summary

Next == ProgramStep \/ Tick

Spec == Init /\ [][Next]_vars

(***************************************************************************)
(* The same program with a file system that can fail: every call into the   *)
(* operating system that the code makes outside a try block may raise       *)
(* OSError.                                                                 *)
(***************************************************************************)
Fails(method) ==
    /\ pc = method
    /\ exc' = Raised("OSError", method)
    /\ pc' = "raised"
    /\ trace' = Append(trace, method)

\* os.path.getsize(file_path) raises: the file is missing
get_file_size_fails ==
    /\ Fails("resize_audio_if_needed")
    /\ UNCHANGED <<env, audio, instance, self, configured, audio_file_path,
                   transcription, locals, summary, httpCalls, genCalls, stdout,
                   fs, tmpdirs, clock, stored>>

\* open(audio_file_path, 'rb') raises: the file cannot be read
open_audio_fails ==
    /\ Fails("transcribe_audio")
    /\ UNCHANGED <<env, audio, instance, self, configured, audio_file_path,
                   transcription, locals, summary, httpCalls, genCalls, stdout,
                   fs, tmpdirs, clock, stored>>

\* tempfile.mkdtemp() raises: the temporary directory cannot be written
mkdtemp_fails ==
    /\ Fails("store_in_json_file")
    /\ UNCHANGED <<env, audio, instance, self, configured, audio_file_path,
                   transcription, locals, summary, httpCalls, genCalls, stdout,
                   fs, tmpdirs, clock, stored>>

\* open(file_path, 'w') raises after the directory was made
open_json_fails ==
    /\ Fails("store_in_json_file")
    /\ \E d \in TmpNames \ tmpdirs :
         /\ tmpdirs' = tmpdirs \cup {d}
         /\ stdout' = Append(stdout, <<"JSON file path: ">>
                                     \o JsonFilePath(TempDir(d), clock))
    /\ UNCHANGED <<env, audio, instance, self, configured, audio_file_path,
                   transcription, locals, summary, httpCalls, genCalls,
                   fs, clock, stored>>

NextEnv ==
    \/ ProgramStep
    \/ Tick
    \/ get_file_size_fails
    \/ open_audio_fails
    \/ mkdtemp_fails
    \/ open_json_fails

SpecEnv == Init /\ [][NextEnv]_vars

(***************************************************************************)
(* store_in_json_file alone, called several times on one object.            *)
(***************************************************************************)
PlainText == PyStr(<<"ok">>)
SpecialText == PyStr(<<"He said ", "\"", "hi", "\"", " ", "\\", "n", " caf", "U+00E9", "\n">>)
ErrorText == PyStr(GenErrorPrefix \o <<"429 ", "\"", "quota", "\"">>)
StoreInputs ==
    { << <<"abstract_summary", a>>, <<"key_points", b>>,
         <<"action_items", SpecialText>>, <<"sentiment", ErrorText>> >> :
      a \in {PlainText, SpecialText}, b \in {PyStr(<<>>), ErrorText} }

InitStore ==
    /\ env = [ELEVENLABS_API_KEY |-> PyStr(<<"sk-key">>),
              GEMINI_API_KEY |-> PyStr(<<"sk-key">>),
              GEMINI_MODEL |-> None, ELEVENLABS_SCRIBE_MODEL_ID |-> None,
              MAX_AUDIO_SIZE_BYTES |-> None]
    /\ audio = [path |-> <<"meeting.mp3">>, size |-> 500]
    /\ pc = "caller"
    /\ exc = NoException
    /\ instance = TRUE
    /\ self = [elevenlabs_api_key |-> PyStr(<<"sk-key">>),
               gemini_api_key |-> PyStr(<<"sk-key">>),
               gemini_model_name |-> PyStr(<<"gemini-1.5-flash">>),
               elevenlabs_scribe_model_id |-> PyStr(<<"scribe_v1">>),
               MAX_AUDIO_SIZE_BYTES |-> DefaultMaxAudioSize]
    /\ configured = TRUE
    /\ audio_file_path = None
    /\ transcription = Unset
    /\ locals = <<>>
    /\ summary = <<>>
    /\ httpCalls = <<>>
    /\ genCalls = <<>>
    /\ stdout = <<>>
    /\ trace = <<>>
    /\ fs = {}
    /\ tmpdirs = {}
    /\ clock = 0
    /\ stored = <<>>

StoreCall ==
    /\ pc = "caller"
    /\ Len(stored) < MaxStores
    /\ \E data \in StoreInputs : StoreInJsonFile(data)
    /\ trace' = Append(trace, "store_in_json_file")
    /\ UNCHANGED <<env, audio, pc, exc, instance, self, configured,
                   audio_file_path, transcription, locals, summary, httpCalls,
                   genCalls, clock>>

NextStore == StoreCall \/ Tick

SpecStore == InitStore /\ [][NextStore]_vars

(***************************************************************************)
(* The claims.                                                              *)
(***************************************************************************)
Absent(v) == v = None \/ v = PyStr(<<>>)
Contains(s, sub) ==
    \E i \in 1 .. (Len(s) - Len(sub) + 1) : SubSeq(s, i, i + Len(sub) - 1) = sub
IsPrefix(s, t) == Len(s) <= Len(t) /\ s = SubSeq(t, 1, Len(s))
MinutesReturned == pc \in {"store_in_json_file", "print", "done"}
FieldNames == <<"abstract_summary", "key_points", "action_items", "sentiment">>
FixedPrompts == <<abstract_summary_prompt, key_points_prompt,
                  action_item_prompt, sentiment_prompt>>
Failed(i) == genCalls[i].outcome.kind = "raise"
Reported ==
    \E i \in DOMAIN stdout :
        stdout[i][1] \in {"Erro na transcricao com ElevenLabs: ",
                          "Erro ao decodificar JSON da resposta da ElevenLabs: "}

\* C1: when the ElevenLabs key or the Gemini key is absent or empty, the
\* constructor raises (ValueError, the code's configuration error) and does so
\* before genai is configured and before any HTTP or generation call; no
\* object is returned.
C1_MissingCredentialFails ==
    (pc # "SpeechToText"
     /\ (Absent(env.ELEVENLABS_API_KEY) \/ Absent(env.GEMINI_API_KEY)))
    => /\ pc = "raised"
       /\ exc = Raised("ValueError", "__init__")
       /\ ~instance
       /\ self = NoSelf
       /\ ~configured
       /\ httpCalls = <<>>
       /\ genCalls = <<>>
       /\ trace = <<>>

C1_Witness ==
    /\ pc = "raised"
    /\ env.ELEVENLABS_API_KEY = PyStr(<<"sk-key">>)
    /\ env.GEMINI_API_KEY = PyStr(<<>>)
    /\ exc.type = "ValueError"

\* C2: meeting_minutes makes exactly four generation calls, one per fixed
\* prompt, whichever of them fail and whatever the transcript (the empty
\* string included), and returns a dict with exactly the keys
\* abstract_summary, key_points, action_items, sentiment, each value a str.
C2_FourCallsFourStrings ==
    /\ Len(genCalls) <= 4
    /\ \A i \in DOMAIN genCalls : genCalls[i].prompt[1] = FixedPrompts[i]
    /\ MinutesReturned =>
         /\ Len(genCalls) = 4
         /\ Len(summary) = 4
         /\ \A i \in 1 .. 4 :
              /\ summary[i][1] = FieldNames[i]
              /\ summary[i][2].tag = "str"

C2_Witness ==
    /\ MinutesReturned
    /\ transcription = PyStr(<<>>)
    /\ Failed(1) /\ ~Failed(2) /\ Failed(4)
    /\ Len(summary) = 4

\* C3 as stated: after any failure of the transcription call (connection
\* error, timeout, a status outside 2xx, an undecodable body) transcribe_audio
\* has reported it and returned None, without raising.
HttpOutcome == httpCalls[1].outcome
C3_AnyNon2xxGivesNone ==
    (Len(httpCalls) = 1
     /\ \/ HttpOutcome.error # "none"
        \/ HttpOutcome.status \notin 200 .. 299
        \/ HttpOutcome.body.json = "undecodable")
    => /\ exc = NoException
       /\ transcription = None
       /\ Reported

\* C3 amended: the same for a connection error, a timeout, a 4xx or 5xx
\* status (the ones raise_for_status raises for) and an undecodable body.
C3_ErrorStatusGivesNone ==
    (Len(httpCalls) = 1
     /\ \/ HttpOutcome.error # "none"
        \/ HttpOutcome.status \in 400 .. 599
        \/ HttpOutcome.body.json = "undecodable")
    => /\ exc = NoException
       /\ pc # "raised"
       /\ transcription = None
       /\ Reported

C3_Witness ==
    /\ Len(httpCalls) = 1
    /\ HttpOutcome.status = 500
    /\ transcription = None
    /\ pc = "abstract_summary_extraction"

\* C4 as stated: after a 2xx answer whose body is JSON, transcribe_audio has
\* returned the body's text member when there is one and the empty string,
\* not None, when there is none.
HasText(body) == \E m \in body.members : m[1] = "text"
TextOf(body) == (CHOOSE m \in body.members : m[1] = "text")[2]
C4_AnyJsonBodyGivesText ==
    (Len(httpCalls) = 1 /\ HttpOutcome.error = "none"
     /\ HttpOutcome.status \in 200 .. 299
     /\ HttpOutcome.body.json \in {"object", "array"})
    => /\ exc = NoException
       /\ transcription = IF HasText(HttpOutcome.body)
                          THEN TextOf(HttpOutcome.body) ELSE PyStr(<<>>)

\* C4 amended: the same when the body is a JSON object.
C4_ObjectBodyGivesText ==
    (Len(httpCalls) = 1 /\ HttpOutcome.error = "none"
     /\ HttpOutcome.status \in 200 .. 299
     /\ HttpOutcome.body.json = "object")
    => /\ exc = NoException
       /\ transcription = IF HasText(HttpOutcome.body)
                          THEN TextOf(HttpOutcome.body) ELSE PyStr(<<>>)

C4_Witness ==
    /\ Len(httpCalls) = 1
    /\ HttpOutcome.status = 200
    /\ HttpOutcome.body.json = "object"
    /\ ~HasText(HttpOutcome.body)
    /\ transcription = PyStr(<<>>)

\* C5: every store_in_json_file call has made one directory and one file of
\* its own, so that no call replaced an earlier call's file, and reading a
\* call's file back with json.loads gives the four-key dict it was passed.
C5_OneNewFileRoundTrip ==
    /\ Cardinality(fs) = Len(stored)
    /\ Cardinality(tmpdirs) = Len(stored)
    /\ \A i \in DOMAIN stored :
         /\ Len(stored[i].data) = 4
         /\ \E f \in fs :
              /\ f.path = stored[i].path
              /\ JsonLoads(f.content) = [ok |-> TRUE, dict |-> stored[i].data]

C5_Witness ==
    /\ Len(stored) = 2
    /\ clock = 0
    /\ stored[1].data # stored[2].data
    /\ stored[1].data[1][2] = SpecialText

\* C6: resize_audio_if_needed returns the path it was given and changes
\* nothing else, no file included, except that it prints the warning exactly
\* when the file's size is strictly greater than MAX_AUDIO_SIZE_BYTES.
C6_ResizeIsInert ==
    [][(pc = "resize_audio_if_needed" /\ pc' = "transcribe_audio")
       => /\ audio_file_path' = PyStr(audio.path)
          /\ stdout' = IF audio.size > self.MAX_AUDIO_SIZE_BYTES
                       THEN Append(stdout, SizeWarning) ELSE stdout
          /\ self.MAX_AUDIO_SIZE_BYTES =
                IF env.MAX_AUDIO_SIZE_BYTES = None THEN 20971520 ELSE 1000
          /\ UNCHANGED <<env, audio, exc, instance, self, configured,
                         transcription, locals, summary, httpCalls, genCalls,
                         fs, tmpdirs, clock, stored>>]_vars

C6_Witness ==
    /\ pc = "transcribe_audio"
    /\ audio.size = 2000
    /\ self.MAX_AUDIO_SIZE_BYTES = 1000
    /\ stdout = <<SizeWarning>>
    /\ audio_file_path = PyStr(audio.path)
    /\ fs = {}

\* C7: when the provider call of an extraction raises, nothing is raised to
\* meeting_minutes or transcribe: the extraction's value is a str that
\* contains the exception's message, and that str is the field's value in the
\* dict meeting_minutes returns.
C7_ErrorBecomesText ==
    \A i \in DOMAIN genCalls :
        Failed(i) =>
            /\ exc = NoException
            /\ pc # "raised"
            /\ Len(locals) >= i
            /\ locals[i][2].tag = "str"
            /\ Contains(locals[i][2].s, genCalls[i].outcome.s)
            /\ summary # <<>> => summary[i] = <<FieldNames[i], locals[i][2]>>

C7_Witness ==
    /\ pc = "done"
    /\ Len(genCalls) = 4
    /\ genCalls[4].outcome = [kind |-> "raise", s |-> <<"timeout">>]
    /\ Contains(DictIndex(summary, "sentiment").s, <<"timeout">>)

\* C8: transcribe runs resize_audio_if_needed, transcribe_audio, the four
\* extractions in the order abstract summary, key points, action items,
\* sentiment, store_in_json_file and the prints, in that order, with one HTTP
\* call and one generation call per extraction; a None transcription does not
\* end the run: the four calls are made on it and the file is written.
Order == <<"resize_audio_if_needed", "transcribe_audio",
           "abstract_summary_extraction", "key_points_extraction",
           "action_item_extraction", "sentiment_analysis",
           "store_in_json_file", "print">>
Count(method) == Cardinality({i \in DOMAIN trace : trace[i] = method})
C8_LinearNoEarlyExit ==
    /\ IsPrefix(trace, Order)
    /\ Len(httpCalls) = Count("transcribe_audio")
    /\ Len(genCalls) = Cardinality({i \in DOMAIN trace : i \in 3 .. 6})
    /\ Len(stored) = Count("store_in_json_file")
    /\ pc = "done" => trace = Order
    /\ (transcription = None /\ pc \notin {"done", "raised"}) => ENABLED ProgramStep
    /\ (transcription = None /\ pc = "done") =>
         /\ \A i \in 1 .. 4 :
              genCalls[i].prompt =
                  <<FixedPrompts[i], "\n\nTexto para analisar:\n", "None">>
         /\ \E f \in fs : f.path = stored[1].path

C8_Witness ==
    /\ pc = "done"
    /\ transcription = None
    /\ Len(genCalls) = 4
    /\ Cardinality(fs) = 1
    /\ trace = Order

\* C9 as stated: once the constructor has succeeded, nothing raises out of
\* the size check, the transcriber, the extractions or the persister.
C9_NothingPropagates ==
    instance => (exc = NoException /\ pc # "raised")

\* C9 amended: once the constructor has succeeded, a failed HTTP call
\* (connection error, timeout, 4xx or 5xx, undecodable body) gives a None
\* transcription and a failed generation call gives an error text, neither
\* raises, and the run goes on; the only exceptions that leave transcribe are
\* an OSError of a file operation (getsize, opening the audio file, mkdtemp,
\* opening the JSON file) and the AttributeError of a decodable body that is
\* not a JSON object.
C9_OnlyFileErrorsPropagate ==
    /\ (instance /\ pc = "raised") =>
         \/ /\ exc.type = "OSError"
            /\ exc.at \in {"resize_audio_if_needed", "transcribe_audio",
                           "store_in_json_file"}
            /\ exc.at = trace[Len(trace)]
            /\ Len(httpCalls) = 0 \/ exc.at = "store_in_json_file"
         \/ /\ exc = Raised("AttributeError", "transcribe_audio")
            /\ HttpOutcome.body.json = "array"
    /\ (Len(httpCalls) = 1
        /\ \/ HttpOutcome.error # "none"
           \/ HttpOutcome.status \in 400 .. 599
           \/ HttpOutcome.body.json = "undecodable")
       => (transcription = None /\ exc.at # "transcribe_audio")
    /\ \A i \in DOMAIN genCalls :
         Failed(i) => /\ Len(locals) >= i
                      /\ locals[i][2].tag = "str"
                      /\ exc.at \notin {Order[j] : j \in 3 .. 6}
    /\ (instance /\ pc \notin {"done", "raised"}) => ENABLED ProgramStep

C9_Witness ==
    /\ pc = "done"
    /\ HttpOutcome.error = "Timeout"
    /\ transcription = None
    /\ Failed(2)
    /\ exc = NoException

\* C10: whichever of the four provider calls fail, all four are made, and
\* each field of the dict is what its own call gave: the provider's text, or
\* the error text made of that call's message; no field holds or depends on
\* what another call gave.
OwnResult(i) ==
    IF Failed(i)
    THEN PyStr(<<"Erro ao gerar conte", "U+00FA", "do: ">> \o genCalls[i].outcome.s)
    ELSE PyStr(genCalls[i].outcome.s)
C10_FieldsIsolated ==
    /\ \A i \in DOMAIN genCalls :
         /\ Len(locals) >= i
         /\ locals[i] = <<FieldNames[i], OwnResult(i)>>
    /\ MinutesReturned =>
         /\ Len(genCalls) = 4
         /\ summary = [i \in 1 .. 4 |-> <<FieldNames[i], OwnResult(i)>>]

C10_Witness ==
    /\ pc = "done"
    /\ Failed(1) /\ ~Failed(2) /\ Failed(3) /\ ~Failed(4)
    /\ genCalls[1].outcome # genCalls[3].outcome
    /\ DictIndex(summary, "key_points") = PyStr(genCalls[2].outcome.s)
====
